---------------------------- MODULE Spec2Model ----------------------------
(***************************************************************************)
(* Model of src/main.py: a genetic algorithm that searches fixed-shape     *)
(* grids of cell-type codes for a maximum of a cached fitness function.    *)
(*                                                                         *)
(* Python objects are modelled with a heap: `heap` is the sequence of live *)
(* arrays, a reference is an index into it, and `population` and           *)
(* `new_population` are lists of references, so that two list slots can    *)
(* hold the same array and an in-place write is seen through every alias.  *)
(* Python indexes from 0, the model from 1.                                *)
(*                                                                         *)
(* Reals are fixed-point integers: scores in units of 1/ScoreScale, the    *)
(* mutation rate in units of 1/RateScale, the powers of the tournament     *)
(* factor in units of 1/PowerScale.  At these scales the schedule of the   *)
(* default configuration is the one the floating-point program produces.   *)
(***************************************************************************)
EXTENDS Integers, Sequences, FiniteSets, TLC

\* ------------------------------------------------------------------ bounds
NumCells == 2       \* cells of a grid, np.prod(SIZE)
TopCode == 2        \* highest cell-type code (17 in the source)
MaxPop == 3         \* largest POPULATION_SIZE a configuration is drawn with
MaxGen == 2         \* largest GENERATIONS a configuration is drawn with
MaxBred == 2        \* most children a drawn configuration breeds in a run
MaxDraw == 3        \* largest population the tournament specification draws
MaxFit == 2         \* largest fitness the tournament specification draws

ScoreScale == 10 * 100
RateScale == 10 * 1000 * 1000
PowerScale == 1000 * 1000

\* --------------------------------------------------------------- constants
INITIAL_MUTATION_RATE == RateScale \div 10       \* 0.1
MUTATION_DECAY_RATE == 99                         \* 0.99, in hundredths
MUTATION_FLOOR == (2 * RateScale) \div 100        \* 0.02
TOURNAMENT_FLOOR == 2
DEFAULT_POPULATION_SIZE == 256
DEFAULT_GENERATIONS == 200
DEFAULT_ELITE_SIZE == 10
DEFAULT_TOURNAMENT_SIZE_BASE == 100
DEFAULT_TOURNAMENT_SIZE_FACTOR == 99              \* 0.99, in hundredths

VARIABLES
    POPULATION_SIZE, ELITE_SIZE, GENERATIONS,      \* control parameters
    TOURNAMENT_SIZE_BASE, TOURNAMENT_SIZE_FACTOR,  \* factor in hundredths
    validGrids,       \* the grids the external validity oracle accepts
    simulator,        \* which external metrics oracle the run is linked with
    heap,             \* live arrays
    population,       \* list of references
    new_population,   \* list of references, built by the breeding loop
    fitnesses,        \* scores of the last evaluated population
    fitness_cache,    \* key -> score
    mutation_rate, tournament_size, generation,
    workers,          \* the fitness calls of the running executor.map
    pc,               \* position of genetic_algorithm
    result,           \* what genetic_algorithm returned
    evaluated,        \* history: contents of the population last evaluated
    returned,         \* history: key -> score of the first call that returned
    children,         \* iterations of the breeding loop done in this generation
    drawn, chosen,    \* the arguments and the return value of the last call
                      \* of the specifications of one operator
    before,           \* history: the heap before that call
    fault,            \* which external entry point cannot complete, if any
    failures,         \* history: oracle calls that did not complete
    phases,           \* history: the generation counter of each EVALUATE
    completion,       \* history: the order in which the fitness calls of
                      \* the last EVALUATE returned
    regenerated,      \* history: generate_array calls of this BREED
    rejected,         \* history: children of this BREED found invalid
    child             \* history: the cells of the child validated last

vars == << POPULATION_SIZE, ELITE_SIZE, GENERATIONS, TOURNAMENT_SIZE_BASE,
           TOURNAMENT_SIZE_FACTOR, validGrids, simulator, heap, population,
           new_population, fitnesses, fitness_cache, mutation_rate,
           tournament_size, generation, workers, pc, result, evaluated,
           returned, children, drawn, chosen, before, fault, failures, phases,
           completion, regenerated, rejected, child >>

config == << POPULATION_SIZE, ELITE_SIZE, GENERATIONS, TOURNAMENT_SIZE_BASE,
             TOURNAMENT_SIZE_FACTOR, validGrids, simulator, fault >>

\* the variables of the specifications of one operator
aside == << drawn, chosen, before >>

\* the history of the breeding loop
bred == << regenerated, rejected, child >>

\* ------------------------------------------------------------------- grids
Cells == 1..NumCells
Codes == 0..TopCode
MutationCodes == 1..(TopCode - 1)
Grids == [Cells -> Codes]

Max(a, b) == IF a >= b THEN a ELSE b
Min(a, b) == IF a <= b THEN a ELSE b
Abs(a) == IF a >= 0 THEN a ELSE 0 - a

RECURSIVE SumTo(_, _)
SumTo(f, n) == IF n = 0 THEN 0 ELSE f[n] + SumTo(f, n - 1)

\* np.zeros(SIZE)
ZeroGrid == [c \in Cells |-> 0]

\* ------------------------------------------------------- external oracles
\* core.nuclear_reactor.is_array_valid: a pure predicate of the contents.
\* A run is linked with one oracle; Init draws it from this family.
ValidOracles == { Grids, {}, {g \in Grids : g[1] # 0} }

is_array_valid(individual) == individual \in validGrids

\* core.nuclear_reactor.validate_array: raises on a structurally invalid grid.
validate_array_raises(individual) == ~ is_array_valid(individual)

\* utils.metrics.reactor_metrics: a pure function of the contents (the fuel
\* is the constant CURRENT_FUEL).  Two stub simulators.
Simulators == {"sum", "hot"}

reactor_metrics(individual) ==
    IF simulator = "sum"
    THEN [energy_gen |-> SumTo(individual, NumCells), heat_gen |-> 0,
          heat_diff |-> 0, efficiency |-> 0]
    ELSE [energy_gen |-> 1, heat_gen |-> 2,
          heat_diff |-> individual[1] - 1, efficiency |-> 50]

\* An external entry point that cannot complete raises an exception that is
\* no verdict on the grid.  A run is linked with a sound library ("none") or
\* with one in which the named entry point cannot complete.
Faults == {"none", "reactor_metrics", "is_array_valid", "validate_array"}

\* ----------------------------------------------------------------- fitness
\* np.exp(-diff) for a non-negative integer diff, in units of 1/ScoreScale
ExpNeg(diff) ==
    CASE diff = 0 -> 1000
      [] diff = 1 -> 368
      [] diff = 2 -> 135
      [] diff = 3 -> 50
      [] diff = 4 -> 18
      [] diff = 5 -> 7
      [] diff = 6 -> 2
      [] diff = 7 -> 1
      [] OTHER -> 0

\* np.abs(array - np.flip(array, axis=0)).sum() for the shape (NumCells,1,1)
FlipDiff(array) ==
    SumTo([c \in Cells |-> Abs(array[c] - array[NumCells + 1 - c])], NumCells)

\* The shape is (NumCells, 1, 1): flipping along the two axes of length 1
\* leaves the array as it is, so each of them contributes exp(-0).
calculate_symmetry_reward(array) == ExpNeg(FlipDiff(array)) + 2 * ExpNeg(0)

\* (max_possible_unique - unique_elements) / max_possible_unique, times 5
DiversityPenaltyTimes5(array) ==
    (5 * ScoreScale * (NumCells - Cardinality({array[c] : c \in Cells})))
        \div NumCells

calculate_heat_penalty(heat_diff) ==
    IF heat_diff > 0 THEN (0 - 100) * heat_diff ELSE heat_diff * (0 - 1)

\* lines 59-69: the score of a valid individual from its metrics
fitness_score(individual, metrics) ==
      (9 * ScoreScale * metrics.energy_gen) \div 10
    + (3 * ScoreScale * metrics.heat_gen) \div 10
    + ScoreScale * calculate_heat_penalty(metrics.heat_diff)
    + (15 * ScoreScale * metrics.efficiency) \div 1000
    + calculate_symmetry_reward(individual) * 2
    - DiversityPenaltyTimes5(individual)

\* the write of line 56 or 71 left out
CachePutLost(cache, key, score) == cache

\* fitness_cache[key] = score
CachePut(cache, key, score) ==
    [k \in (DOMAIN cache) \cup {key} |-> IF k = key THEN score ELSE cache[k]]

\* lines 55-57 left out: the score is computed whatever the validity
fitness_computedUnchecked(individual, metrics) ==
    fitness_score(individual, metrics)

\* lines 55-72: what a call that missed the cache stores and returns
fitness_computed(individual, metrics) ==
    IF ~ is_array_valid(individual) THEN 0
    ELSE fitness_score(individual, metrics)

\* ------------------------------------------------------------- numpy bits
\* np.argmax: the first index of the maximum
argmax(a) ==
    CHOOSE i \in 1..Len(a) :
        /\ \A j \in 1..Len(a) : a[j] <= a[i]
        /\ \A j \in 1..(i - 1) : a[j] < a[i]

\* The orders np.argsort may return: every permutation that sorts ascending
\* (the default kind is not stable, so the order among ties is not fixed).
argsort(a) ==
    { p \in [1..Len(a) -> 1..Len(a)] :
        /\ \A i, j \in 1..Len(a) : i # j => p[i] # p[j]
        /\ \A i \in 1..(Len(a) - 1) : a[p[i]] <= a[p[i + 1]] }

\* seq[:n], the head of the list in place of its tail
SliceFirst(seq, n) ==
    IF n >= Len(seq) THEN seq ELSE SubSeq(seq, 1, n)

\* seq[-n:] as Python slices it: for n = 0 this is seq[0:], the whole list
SliceLast(seq, n) ==
    IF n = 0 \/ n >= Len(seq) THEN seq
    ELSE SubSeq(seq, Len(seq) - n + 1, Len(seq))

\* np.random.choice(n, size=k, replace=False): k distinct indices, in the
\* order they were drawn
Draws(n, k) ==
    { s \in [1..k -> 1..n] : \A i, j \in 1..k : i # j => s[i] # s[j] }

\* --------------------------------------------------------------- operators
\* line 98 left out: the index within the draw is used as a population index
tournament_selectionUnmapped(pop, fits, selected) ==
    pop[argmax([j \in 1..Len(selected) |-> fits[selected[j]]])]

\* lines 94-99; `selected` is the draw.  Returns a reference.
tournament_selection(pop, fits, selected) ==
    LET best_index_in_selected == argmax([j \in 1..Len(selected) |-> fits[selected[j]]])
        best_index == selected[best_index_in_selected]
    IN pop[best_index]

\* what a call of tournament_selection can return, over every draw
Tournaments(pop, fits, k) ==
    { tournament_selection(pop, fits, selected) : selected \in Draws(Len(pop), k) }

\* line 102: np.random.randint(1, np.prod(REACTOR_DIMENSIONS)), the upper
\* end left out
CutPoints == 1..(NumCells - 1)

\* the slices taken one cell early: parent1.flat[:point - 1] and
\* parent2.flat[point - 1:]
crossover_cellsShifted(parent1, parent2, point) ==
    [c \in Cells |-> IF c < point THEN parent1[c] ELSE parent2[c]]

\* line 103: np.concatenate builds a new array out of the two slices
crossover_cells(parent1, parent2, point) ==
    [c \in Cells |-> IF c <= point THEN parent1[c] ELSE parent2[c]]

\* no new array: the child is parent1 itself (return parent1)
crossoverAliased(h, parent1, parent2, point) ==
    [heap |-> h, child |-> parent1]

\* the child written into parent1 instead of a new array
\* (parent1.flat[point:] = parent2.flat[point:]; return parent1)
crossoverInPlace(h, parent1, parent2, point) ==
    [heap |-> [h EXCEPT ![parent1] = crossover_cells(h[parent1], h[parent2], point)],
     child |-> parent1]

\* lines 101-104 on the heap: the child is a newly allocated array
crossover(h, parent1, parent2, point) ==
    [heap |-> Append(h, crossover_cells(h[parent1], h[parent2], point)),
     child |-> Len(h) + 1]

\* lines 106-109 on the heap: writes the masked cells of the array that
\* `individual` refers to, in place, and returns the same reference
mutate(h, individual, mask, values) ==
    [h EXCEPT ![individual] =
        [c \in Cells |-> IF c \in mask THEN values[c] ELSE h[individual][c]]]

\* The masks np.random.rand(...) < mutation_rate can produce: rand is in
\* [0, 1), so no cell at rate <= 0 and every cell at rate >= 1.
Masks(rate) ==
    IF rate <= 0 THEN { {} }
    ELSE IF rate >= RateScale THEN { Cells }
    ELSE SUBSET Cells

\* ------------------------------------------------------------------- heap
RECURSIVE FirstRefs(_, _)
\* the distinct references of a list, in the order of their first occurrence
FirstRefs(refs, seen) ==
    IF refs = << >> THEN << >>
    ELSE IF Head(refs) \in seen THEN FirstRefs(Tail(refs), seen)
    ELSE << Head(refs) >> \o FirstRefs(Tail(refs), seen \cup {Head(refs)})

PositionOf(order, r) == CHOOSE i \in 1..Len(order) : order[i] = r

\* Arrays no list refers to any more are freed; the arrays that stay are
\* renumbered in the order the list names them.
Collected(h, refs) ==
    LET order == FirstRefs(refs, {})
    IN [heap |-> [i \in 1..Len(order) |-> h[order[i]]],
        refs |-> [i \in 1..Len(refs) |-> PositionOf(order, refs[i])]]

\* The array `ref` is freed when no list refers to it; it is the array
\* allocated last, so no other reference moves.
Released(h, ref, refs) ==
    IF ref = Len(h) /\ \A i \in 1..Len(refs) : refs[i] # ref
    THEN SubSeq(h, 1, Len(h) - 1)
    ELSE h

Contents(h, refs) == [i \in 1..Len(refs) |-> h[refs[i]]]

\* ------------------------------------------------------- control schedule
\* TOURNAMENT_SIZE_FACTOR ** g, in units of 1/PowerScale
\* a * b for two fixed-point numbers in [0, 1], in pieces that fit 32 bits
MulFixed(a, b) ==
    LET ah == a \div 1000
        al == a % 1000
        bh == b \div 1000
        bl == b % 1000
    IN ah * bh + ((ah * bl + al * bh) * 1000 + al * bl) \div PowerScale

RECURSIVE FactorPower(_, _)
FactorPower(factor, g) ==
    IF g = 0 THEN PowerScale
    ELSE IF g % 2 = 0
         THEN LET half == FactorPower(factor, g \div 2) IN MulFixed(half, half)
         ELSE MulFixed(FactorPower(factor, g - 1), (factor * PowerScale) \div 100)

\* line 127 without the max(..., 2)
TournamentSizeUnfloored(base, factor, g) ==
    (base * FactorPower(factor, g)) \div PowerScale

\* line 127
TournamentSize(base, factor, g) ==
    Max((base * FactorPower(factor, g)) \div PowerScale, TOURNAMENT_FLOOR)

\* lines 145-146
AdaptedRate(rate) ==
    IF rate > MUTATION_FLOOR THEN (rate * MUTATION_DECAY_RATE) \div 100 ELSE rate

\* ------------------------------------------------------------------- state
\* range(POPULATION_SIZE - ELITE_SIZE) iterations in each generation
BredInRun(pop, elite, gens) == Max(pop - elite, 0) * gens

NoResult == [branch |-> "none"]
Idle == << >>

Init ==
    /\ POPULATION_SIZE \in 2..MaxPop
    /\ ELITE_SIZE \in 0..POPULATION_SIZE
    /\ TOURNAMENT_SIZE_BASE \in 2..(POPULATION_SIZE + 1)
    /\ TOURNAMENT_SIZE_FACTOR = DEFAULT_TOURNAMENT_SIZE_FACTOR
    /\ GENERATIONS \in 1..MaxGen
    /\ BredInRun(POPULATION_SIZE, ELITE_SIZE, GENERATIONS) <= MaxBred
    /\ validGrids \in ValidOracles
    /\ simulator \in Simulators
    /\ fault \in Faults
    /\ heap = << >>
    /\ population = << >>
    /\ new_population = << >>
    /\ fitnesses = << >>
    /\ fitness_cache = << >>
    /\ mutation_rate = INITIAL_MUTATION_RATE
    /\ tournament_size = 0
    /\ generation = 0
    /\ workers = Idle
    /\ pc = "start"
    /\ result = NoResult
    /\ evaluated = << >>
    /\ returned = << >>
    /\ children = 0
    /\ drawn = << >>
    /\ chosen = 0
    /\ before = << >>
    /\ failures = 0
    /\ phases = << >>
    /\ completion = << >>
    /\ regenerated = 0
    /\ rejected = 0
    /\ child = << >>

\* lines 41-43 and 112-113: one zero array, POPULATION_SIZE references to it
initialize_population ==
    /\ pc = "start"
    /\ heap' = << ZeroGrid >>
    /\ population' = [i \in 1..POPULATION_SIZE |-> 1]
    /\ mutation_rate' = INITIAL_MUTATION_RATE
    /\ generation' = 0
    /\ pc' = "evaluate"
    /\ UNCHANGED << config, aside, failures, phases, completion, bred,
                    new_population, fitnesses, fitness_cache,
                    tournament_size, workers, result, evaluated, returned,
                    children >>

\* lines 117-118: executor.map submits one fitness call per individual
StartEvaluate ==
    /\ pc = "evaluate"
    /\ workers' = [i \in 1..Len(population) |->
                     [pc |-> "queued", key |-> << >>, metrics |-> << >>,
                      score |-> 0, late |-> FALSE, simulated |-> FALSE]]
    /\ evaluated' = Contents(heap, population)
    /\ phases' = Append(phases, generation)
    /\ completion' = << >>
    /\ pc' = "evaluating"
    /\ UNCHANGED << config, aside, failures, bred, heap, population,
                    new_population, fitnesses,
                    fitness_cache, mutation_rate, tournament_size, generation,
                    result, returned, children >>

Returned(key, score) ==
    IF key \in DOMAIN returned THEN returned
    ELSE [k \in (DOMAIN returned) \cup {key} |->
            IF k = key THEN score ELSE returned[k]]

\* lines 49-51: the key and the cache lookup; a hit returns the stored score
FitnessLookup(i) ==
    /\ pc = "evaluating"
    /\ workers[i].pc = "queued"
    /\ LET key == heap[population[i]]
       IN IF key \in DOMAIN fitness_cache
          THEN /\ workers' = [workers EXCEPT ![i] =
                     [@ EXCEPT !.pc = "done", !.key = key,
                               !.score = fitness_cache[key],
                               !.late = key \in DOMAIN returned]]
               /\ returned' = Returned(key, fitness_cache[key])
               /\ completion' = Append(completion, i)
          ELSE /\ workers' = [workers EXCEPT ![i] =
                     [@ EXCEPT !.pc = "miss", !.key = key,
                               !.late = key \in DOMAIN returned]]
               /\ UNCHANGED << returned, completion >>
    /\ UNCHANGED << config, aside, failures, phases, bred, heap,
                    population, new_population, fitnesses,
                    fitness_cache, mutation_rate, tournament_size, generation,
                    pc, result, evaluated, children >>

\* line 53: the call of the simulator; an exception it raises ends the call
FitnessMetrics(i) ==
    /\ pc = "evaluating"
    /\ workers[i].pc = "miss"
    /\ IF fault = "reactor_metrics"
       THEN /\ workers' = [workers EXCEPT ![i] = [@ EXCEPT !.pc = "raised"]]
            /\ failures' = failures + 1
       ELSE /\ workers' = [workers EXCEPT ![i] =
                  [@ EXCEPT !.pc = "measured", !.simulated = TRUE,
                            !.metrics = reactor_metrics(heap[population[i]])]]
            /\ UNCHANGED failures
    /\ UNCHANGED << config, aside, phases, completion, bred, heap,
                    population, new_population, fitnesses,
                    fitness_cache, mutation_rate, tournament_size, generation,
                    pc, result, evaluated, returned, children >>

\* lines 55-72: validity, score, the write to the cache and the return
FitnessStore(i) ==
    /\ pc = "evaluating"
    /\ workers[i].pc = "measured"
    /\ IF fault = "is_array_valid"
       THEN \* line 55 raises: nothing is stored, the call ends
            /\ workers' = [workers EXCEPT ![i] = [@ EXCEPT !.pc = "raised"]]
            /\ failures' = failures + 1
            /\ UNCHANGED << fitness_cache, returned, completion >>
       ELSE LET score == fitness_computed(heap[population[i]], workers[i].metrics)
            IN /\ fitness_cache' = CachePut(fitness_cache, workers[i].key, score)
               /\ workers' = [workers EXCEPT ![i] =
                     [@ EXCEPT !.pc = "done", !.score = score]]
               /\ returned' = Returned(workers[i].key, score)
               /\ completion' = Append(completion, i)
               /\ UNCHANGED failures
    /\ UNCHANGED << config, aside, phases, bred, heap, population,
                    new_population, fitnesses,
                    mutation_rate, tournament_size, generation, pc, result,
                    evaluated, children >>

\* the with block waits for some call only
AnyReturned(ws) == \E i \in DOMAIN ws : ws[i].pc = "done"

\* line 117: leaving the with block joins the workers, every call has returned
AllReturned(ws) == \A i \in DOMAIN ws : ws[i].pc = "done"

\* the results in the reverse of the order of submission
MapResultsReversed(ws) == [i \in 1..Len(ws) |-> ws[Len(ws) + 1 - i].score]

\* line 118: executor.map yields the results in the order of submission
MapResults(ws) == [i \in 1..Len(ws) |-> ws[i].score]

\* lines 117-120: the executor is left when every call has returned; map
\* yields the results in the order of the population
CollectFitnesses ==
    /\ pc = "evaluating"
    /\ AllReturned(workers)
    /\ fitnesses' = MapResults(workers)
    /\ workers' = Idle
    /\ pc' = "select"
    /\ UNCHANGED << config, aside, failures, phases, completion, bred,
                    heap, population, new_population, fitness_cache,
                    mutation_rate, tournament_size, generation, result,
                    evaluated, returned, children >>

\* lines 117-118: list() re-raises the exception of a call; leaving the with
\* block waits for the calls still running, then the exception leaves
\* genetic_algorithm, which nothing catches
EvaluateError ==
    /\ pc = "evaluating"
    /\ \A i \in DOMAIN workers : workers[i].pc \in {"done", "raised"}
    /\ \E i \in DOMAIN workers : workers[i].pc = "raised"
    /\ workers' = Idle
    /\ pc' = "error"
    /\ UNCHANGED << config, aside, failures, phases, completion, bred, heap,
                    population, new_population, fitnesses, fitness_cache,
                    mutation_rate, tournament_size, generation, result,
                    evaluated, returned, children >>

\* lines 122-127: the elites open the new population
SelectElites ==
    /\ pc = "select"
    /\ \E order \in argsort(fitnesses) :
          LET elite_indices == SliceLast(order, ELITE_SIZE)
              elites == [i \in 1..Len(elite_indices) |-> population[elite_indices[i]]]
          IN new_population' = elites
    /\ tournament_size' =
          TournamentSize(TOURNAMENT_SIZE_BASE, TOURNAMENT_SIZE_FACTOR, generation)
    /\ children' = 0
    /\ completion' = << >>
    /\ regenerated' = 0
    /\ rejected' = 0
    /\ child' = << >>
    /\ pc' = "breed"
    /\ UNCHANGED << config, aside, failures, phases, heap, population,
                    fitnesses, fitness_cache,
                    mutation_rate, generation, workers, result, evaluated,
                    returned >>

\* the handler of lines 137-139 run whether validate_array raised or not
validatedReplaced(h, ref, refs, caught, fresh) ==
    LET after == Append(Released(h, ref, refs), fresh)
    IN [heap |-> after, child |-> Len(after), regenerated |-> 1]

\* lines 135-139: when validate_array raised, the name child is rebound to
\* the array generate_array returns, which drops the last reference to the
\* bred array; else the bred array is kept
validated(h, ref, refs, caught, fresh) ==
    IF caught
    THEN LET after == Append(Released(h, ref, refs), fresh)
         IN [heap |-> after, child |-> Len(after), regenerated |-> 1]
    ELSE [heap |-> h, child |-> ref, regenerated |-> 0]

\* lines 128-140, one iteration: two tournaments, crossover, mutation in
\* place of the child, validation, regeneration of a child that fails it
BreedChild ==
    /\ pc = "breed"
    /\ children < POPULATION_SIZE - ELITE_SIZE
    /\ tournament_size <= Len(population)
    /\ \E parent1, parent2 \in Tournaments(population, fitnesses, tournament_size),
          point \in CutPoints,
          mask \in Masks(mutation_rate),
          values \in [Cells -> MutationCodes],
          fresh \in Grids :
          LET crossed == crossover(heap, parent1, parent2, point)
              mutated == mutate(crossed.heap, crossed.child, mask, values)
              cells == mutated[crossed.child]
              invalid == validate_array_raises(cells)
              \* line 137: except Exception takes the exception that reports
              \* an invalid grid and the one of a call that cannot complete
              caught == fault = "validate_array" \/ invalid
              kept == validated(mutated, crossed.child,
                                population \o new_population, caught, fresh)
          IN /\ ~ caught => fresh = ZeroGrid
             /\ heap' = kept.heap
             /\ new_population' = Append(new_population, kept.child)
             /\ child' = cells
             /\ regenerated' = regenerated + kept.regenerated
             /\ rejected' = IF fault # "validate_array" /\ invalid
                            THEN rejected + 1 ELSE rejected
             /\ failures' = IF fault = "validate_array"
                            THEN failures + 1 ELSE failures
    /\ children' = children + 1
    /\ UNCHANGED << config, aside, phases, completion, population, fitnesses,
                    fitness_cache,
                    mutation_rate, tournament_size, generation, workers, pc,
                    result, evaluated, returned >>

\* line 96: np.random.choice raises ValueError when it has to draw more
\* indices than the population has; nothing catches it
BreedChoiceError ==
    /\ pc = "breed"
    /\ children < POPULATION_SIZE - ELITE_SIZE
    /\ tournament_size > Len(population)
    /\ pc' = "error"
    /\ UNCHANGED << config, aside, failures, phases, completion, bred,
                    heap, population, new_population, fitnesses,
                    fitness_cache, mutation_rate, tournament_size, generation,
                    workers, result, evaluated, returned, children >>

\* the loop taken once more than range(GENERATIONS) does
LoopContinuesInclusive(g, gens) == g <= gens

\* line 115: range(GENERATIONS) has a next value after g - 1
LoopContinues(g, gens) == g < gens

\* lines 142-150 and the loop test of line 115
Adapt ==
    /\ pc = "breed"
    /\ children >= POPULATION_SIZE - ELITE_SIZE
    /\ LET kept == Collected(heap, new_population)
       IN /\ heap' = kept.heap
          /\ population' = kept.refs
    /\ new_population' = << >>
    /\ mutation_rate' = AdaptedRate(mutation_rate)
    /\ generation' = generation + 1
    /\ pc' = IF LoopContinues(generation + 1, GENERATIONS)
             THEN "evaluate" ELSE "terminate"
    /\ regenerated' = 0
    /\ rejected' = 0
    /\ child' = << >>
    /\ UNCHANGED << config, aside, failures, phases, completion, fitnesses,
                    fitness_cache, tournament_size, workers,
                    result, evaluated, returned, children >>

\* lines 153-157
Terminate ==
    /\ pc = "terminate"
    /\ LET best_index == argmax(fitnesses)
           best == heap[population[best_index]]
       IN IF fault = "is_array_valid"
          THEN /\ failures' = failures + 1
               /\ pc' = "error"
               /\ UNCHANGED result
          ELSE /\ IF is_array_valid(best)
                  THEN result' = [branch |-> "best", grid |-> best,
                                  fitness |-> fitnesses[best_index]]
                  ELSE \E fresh \in Grids :
                          result' = [branch |-> "fallback", grid |-> fresh,
                                     fitness |-> 0]
               /\ pc' = "done"
               /\ UNCHANGED failures
    /\ UNCHANGED << config, aside, phases, completion, bred, heap,
                    population, new_population, fitnesses,
                    fitness_cache, mutation_rate, tournament_size, generation,
                    workers, evaluated, returned, children >>

Next ==
    \/ initialize_population
    \/ StartEvaluate
    \/ \E i \in DOMAIN workers : FitnessLookup(i)
    \/ \E i \in DOMAIN workers : FitnessMetrics(i)
    \/ \E i \in DOMAIN workers : FitnessStore(i)
    \/ CollectFitnesses
    \/ EvaluateError
    \/ SelectElites
    \/ BreedChild
    \/ BreedChoiceError
    \/ Adapt
    \/ Terminate

Spec == Init /\ [][Next]_vars

\* ------------------------------------------------------ the run, scheduled
\* The interpreter schedules every thread that can run, and the main thread
\* is blocked only while it waits for the fitness calls: a step that can be
\* taken is taken.
SpecFair == Init /\ [][Next]_vars /\ WF_vars(Next)

\* ------------------------------------------- runs that breed over an elite
\* Runs of one generation more than MaxGen with one child bred in each
\* generation beside the elites, a sound library and an oracle that accepts
\* every grid: the population evaluated last has been bred from one whose
\* members had different scores.
InitElitism ==
    /\ POPULATION_SIZE \in 2..MaxPop
    /\ ELITE_SIZE = POPULATION_SIZE - 1
    /\ TOURNAMENT_SIZE_BASE = TOURNAMENT_FLOOR
    /\ TOURNAMENT_SIZE_FACTOR = DEFAULT_TOURNAMENT_SIZE_FACTOR
    /\ GENERATIONS = MaxGen + 1
    /\ validGrids = Grids
    /\ simulator \in Simulators
    /\ fault = "none"
    /\ heap = << >>
    /\ population = << >>
    /\ new_population = << >>
    /\ fitnesses = << >>
    /\ fitness_cache = << >>
    /\ mutation_rate = INITIAL_MUTATION_RATE
    /\ tournament_size = 0
    /\ generation = 0
    /\ workers = Idle
    /\ pc = "start"
    /\ result = NoResult
    /\ evaluated = << >>
    /\ returned = << >>
    /\ children = 0
    /\ drawn = << >>
    /\ chosen = 0
    /\ before = << >>
    /\ failures = 0
    /\ phases = << >>
    /\ completion = << >>
    /\ regenerated = 0
    /\ rejected = 0
    /\ child = << >>

\* the steps of Next such a run can take: none of its calls raises
NextElitism ==
    \/ initialize_population
    \/ StartEvaluate
    \/ \E i \in DOMAIN workers : FitnessLookup(i)
    \/ \E i \in DOMAIN workers : FitnessMetrics(i)
    \/ \E i \in DOMAIN workers : FitnessStore(i)
    \/ CollectFitnesses
    \/ SelectElites
    \/ BreedChild
    \/ Adapt
    \/ Terminate

SpecElitism == InitElitism /\ [][NextElitism]_vars

\* ------------------------------------------------ the schedule on its own
\* The loop of genetic_algorithm projected on the two parameters it adapts:
\* nothing else in the loop reads or writes generation, tournament_size and
\* mutation_rate, so the schedule of the default GENERATIONS can be followed
\* without the populations.
InitSchedule ==
    /\ POPULATION_SIZE = DEFAULT_POPULATION_SIZE
    /\ ELITE_SIZE = DEFAULT_ELITE_SIZE
    /\ GENERATIONS = DEFAULT_GENERATIONS
    /\ TOURNAMENT_SIZE_BASE \in {DEFAULT_TOURNAMENT_SIZE_BASE, TOURNAMENT_FLOOR + 1}
    /\ TOURNAMENT_SIZE_FACTOR \in {DEFAULT_TOURNAMENT_SIZE_FACTOR, 50, 100}
    /\ validGrids = Grids
    /\ simulator = "sum"
    /\ heap = << >>
    /\ population = << >>
    /\ new_population = << >>
    /\ fitnesses = << >>
    /\ fitness_cache = << >>
    /\ mutation_rate \in {INITIAL_MUTATION_RATE, MUTATION_FLOOR}
    /\ tournament_size = 0
    /\ generation = 0
    /\ workers = Idle
    /\ pc = "schedule"
    /\ result = NoResult
    /\ evaluated = << >>
    /\ returned = << >>
    /\ children = 0
    /\ drawn = << >>
    /\ chosen = 0
    /\ before = << >>
    /\ fault = "none"
    /\ failures = 0
    /\ phases = << >>
    /\ completion = << >>
    /\ regenerated = 0
    /\ rejected = 0
    /\ child = << >>

\* lines 115, 127 and 145-146: one pass of the loop
ScheduleStep ==
    /\ pc = "schedule"
    /\ generation < GENERATIONS
    /\ tournament_size' =
          TournamentSize(TOURNAMENT_SIZE_BASE, TOURNAMENT_SIZE_FACTOR, generation)
    /\ mutation_rate' = AdaptedRate(mutation_rate)
    /\ generation' = generation + 1
    /\ UNCHANGED << config, aside, failures, phases, completion, bred, heap,
                    population, new_population,
                    fitnesses, fitness_cache, workers, pc, result, evaluated,
                    returned, children >>

NextSchedule == ScheduleStep

SpecSchedule == InitSchedule /\ [][NextSchedule]_vars

\* ------------------------------------------- tournament_selection on its own
\* A population of distinct arrays with any fitness vector, and one call of
\* tournament_selection with a tournament size the population can serve.
InitTournament ==
    /\ POPULATION_SIZE \in 2..MaxDraw
    /\ ELITE_SIZE = 0
    /\ GENERATIONS = 1
    /\ TOURNAMENT_SIZE_BASE = DEFAULT_TOURNAMENT_SIZE_BASE
    /\ TOURNAMENT_SIZE_FACTOR = DEFAULT_TOURNAMENT_SIZE_FACTOR
    /\ validGrids = Grids
    /\ simulator = "sum"
    /\ heap = [i \in 1..POPULATION_SIZE |-> ZeroGrid]
    /\ population = [i \in 1..POPULATION_SIZE |-> i]
    /\ new_population = << >>
    /\ fitnesses \in [1..POPULATION_SIZE -> 0..MaxFit]
    /\ fitness_cache = << >>
    /\ mutation_rate = INITIAL_MUTATION_RATE
    /\ tournament_size \in 1..POPULATION_SIZE
    /\ generation = 0
    /\ workers = Idle
    /\ pc = "tournament"
    /\ result = NoResult
    /\ evaluated = << >>
    /\ returned = << >>
    /\ children = 0
    /\ drawn = << >>
    /\ chosen = 0
    /\ before = << >>
    /\ fault = "none"
    /\ failures = 0
    /\ phases = << >>
    /\ completion = << >>
    /\ regenerated = 0
    /\ rejected = 0
    /\ child = << >>

\* lines 94-99
TournamentCall ==
    /\ pc = "tournament"
    /\ \E sel \in Draws(Len(population), tournament_size) :
          /\ drawn' = sel
          /\ chosen' = tournament_selection(population, fitnesses, sel)
    /\ pc' = "selected"
    /\ UNCHANGED << config, before, failures, phases, completion, bred, heap,
                    population, new_population, fitnesses,
                    fitness_cache, mutation_rate, tournament_size, generation,
                    workers, result, evaluated, returned, children >>

NextTournament == TournamentCall

SpecTournament == InitTournament /\ [][NextTournament]_vars

\* --------------------------------------- crossover and mutate on their own
\* Two parent arrays of any contents, one call of crossover on two of them
\* (the same one twice included), then one call of mutate on the child.
InitOperators ==
    /\ POPULATION_SIZE = 2
    /\ ELITE_SIZE = 0
    /\ GENERATIONS = 1
    /\ TOURNAMENT_SIZE_BASE = DEFAULT_TOURNAMENT_SIZE_BASE
    /\ TOURNAMENT_SIZE_FACTOR = DEFAULT_TOURNAMENT_SIZE_FACTOR
    /\ validGrids = Grids
    /\ simulator = "sum"
    /\ \E a, b \in Grids : heap = << a, b >>
    /\ population = << 1, 2 >>
    /\ new_population = << >>
    /\ fitnesses = << >>
    /\ fitness_cache = << >>
    /\ mutation_rate \in {INITIAL_MUTATION_RATE, RateScale}
    /\ tournament_size = 0
    /\ generation = 0
    /\ workers = Idle
    /\ pc = "operators"
    /\ result = NoResult
    /\ evaluated = << >>
    /\ returned = << >>
    /\ children = 0
    /\ drawn = << >>
    /\ chosen = 0
    /\ before = << >>
    /\ fault = "none"
    /\ failures = 0
    /\ phases = << >>
    /\ completion = << >>
    /\ regenerated = 0
    /\ rejected = 0
    /\ child = << >>

\* lines 101-104; drawn holds the two arguments, chosen the returned reference
CrossoverCall ==
    /\ pc = "operators"
    /\ \E parent1, parent2 \in DOMAIN heap, point \in CutPoints :
          LET crossed == crossover(heap, parent1, parent2, point)
          IN /\ drawn' = << parent1, parent2 >>
             /\ heap' = crossed.heap
             /\ chosen' = crossed.child
    /\ before' = heap
    /\ pc' = "crossed"
    /\ UNCHANGED << config, failures, phases, completion, bred, population,
                    new_population, fitnesses, fitness_cache, mutation_rate,
                    tournament_size, generation, workers, result, evaluated,
                    returned, children >>

\* lines 106-109 as line 132 calls them, on the child of the crossover;
\* drawn holds the argument, chosen the returned reference (line 109
\* returns the argument)
MutateCall ==
    /\ pc = "crossed"
    /\ \E mask \in Masks(mutation_rate), values \in [Cells -> MutationCodes] :
          heap' = mutate(heap, chosen, mask, values)
    /\ drawn' = << chosen >>
    /\ chosen' = chosen
    /\ before' = heap
    /\ pc' = "mutated"
    /\ UNCHANGED << config, failures, phases, completion, bred, population,
                    new_population, fitnesses, fitness_cache, mutation_rate,
                    tournament_size, generation, workers, result, evaluated,
                    returned, children >>

NextOperators == CrossoverCall \/ MutateCall

SpecOperators == InitOperators /\ [][NextOperators]_vars

\* ================================================================== claims
ValidConfiguration ==
    /\ 0 <= ELITE_SIZE
    /\ ELITE_SIZE < POPULATION_SIZE
    /\ TOURNAMENT_SIZE_BASE <= POPULATION_SIZE

BestEvaluated == argmax(fitnesses)

\* C1 (as claimed): when genetic_algorithm returns through the validity
\* check, the returned grid is the member of the last evaluated population
\* at the index of the maximum of its fitness vector, and the returned
\* fitness is the score of that returned grid.
C1_ReturnsBestEvaluated ==
    (pc = "done" /\ result.branch = "best") =>
        /\ result.grid = evaluated[BestEvaluated]
        /\ result.fitness =
              fitness_computed(result.grid, reactor_metrics(result.grid))

\* C2 (as claimed): the grid genetic_algorithm returns passes is_array_valid,
\* on the fallback branch too.  Read in the claim's favour: for a valid
\* configuration and an oracle that accepts some grid.
C2_ReturnedGridValid ==
    (pc = "done" /\ ValidConfiguration /\ validGrids # {}) =>
        is_array_valid(result.grid)

\* the sets of Min(ELITE_SIZE, n) indices no index outside of which has a
\* higher fitness: the possible "ELITE_SIZE highest-fitness individuals"
TopSets ==
    { S \in SUBSET (1..Len(evaluated)) :
        /\ Cardinality(S) = Min(ELITE_SIZE, Len(evaluated))
        /\ \A i \in S : \A j \in (1..Len(evaluated)) \ S :
              fitnesses[j] <= fitnesses[i] }

Bred == pc \in {"evaluate", "terminate"} /\ generation >= 1

\* C3: whenever a population has been bred from an evaluated one, the next
\* generation's (and the final) population holds, for one choice of the
\* ELITE_SIZE highest-fitness individuals of the evaluated generation, every
\* one of them with the cells it had when it was evaluated.
C3_ElitesCarried ==
    Bred =>
        \E S \in TopSets :
            \A i \in S : \E j \in 1..Len(population) :
                heap[population[j]] = evaluated[i]

\* C3 witness: generation 0 is followed by generation 1, one elite was kept
\* and a bred child with other cells stands beside it.
C3_Witness ==
    /\ pc = "evaluate"
    /\ generation >= 1
    /\ ELITE_SIZE >= 1
    /\ ELITE_SIZE < POPULATION_SIZE
    /\ \E j \in 1..Len(population) :
          \A i \in 1..Len(evaluated) : heap[population[j]] # evaluated[i]

\* C4 (as claimed): with a valid configuration the population holds exactly
\* POPULATION_SIZE grids at the start of every EVALUATE and after every BREED.
C4_PopulationSizeKept ==
    (ValidConfiguration /\ pc \in {"evaluate", "terminate"}) =>
        Len(population) = POPULATION_SIZE

\* C5 (as claimed): the mutation rate is never below the floor 0.02.
C5_RateNeverBelowFloor ==
    mutation_rate >= MUTATION_FLOOR

\* C6: every pass of the loop sets a tournament size of at least 2 that is
\* not larger than the one of the generation before.
C6_TournamentSizeSchedule ==
    [][ /\ tournament_size' >= TOURNAMENT_FLOOR
        /\ generation >= 1 => tournament_size' <= tournament_size ]_vars

\* C6 witness: the size has come down from a larger base to the floor, and
\* the floored product is below the floor.
C6_Witness ==
    /\ pc = "schedule"
    /\ generation >= 2
    /\ TOURNAMENT_SIZE_BASE > TOURNAMENT_FLOOR
    /\ tournament_size = TOURNAMENT_FLOOR
    /\ (TOURNAMENT_SIZE_BASE
          * FactorPower(TOURNAMENT_SIZE_FACTOR, generation - 1)) \div PowerScale
       < TOURNAMENT_FLOOR

\* C7: a fitness call that starts after a call on the same cell contents has
\* returned hits the cache: it returns the score that call returned and does
\* not call the simulator.
C7_CacheHitAfterReturn ==
    \A i \in DOMAIN workers :
        workers[i].late =>
            /\ workers[i].pc = "done"
            /\ ~ workers[i].simulated
            /\ workers[i].score = returned[workers[i].key]

\* C7 witness: in a later generation a call on an array that is another
\* object than, but has the cells of, an array scored before has returned.
C7_Witness ==
    /\ generation >= 1
    /\ \E i, j \in DOMAIN workers :
          /\ population[i] # population[j]
          /\ heap[population[i]] = heap[population[j]]
          /\ workers[i].late
          /\ workers[i].pc = "done"
          /\ workers[i].score # 0

\* C8: a fitness call on a grid the validity oracle rejects returns 0, when it
\* computes the score and when it takes it from the cache, and 0 is what the
\* cache holds for such a grid.
C8_InvalidScoresZero ==
    /\ \A i \in DOMAIN workers :
          (workers[i].pc = "done" /\ ~ is_array_valid(workers[i].key)) =>
              workers[i].score = 0
    /\ \A key \in DOMAIN fitness_cache :
          ~ is_array_valid(key) => fitness_cache[key] = 0

\* C8 witness: one call computed the score of an invalid grid whose metrics
\* give a score other than 0, another call took it from the cache.
C8_Witness ==
    \E i, j \in DOMAIN workers :
        /\ workers[i].pc = "done"
        /\ workers[i].simulated
        /\ ~ is_array_valid(workers[i].key)
        /\ fitness_score(workers[i].key, workers[i].metrics) # 0
        /\ workers[j].pc = "done"
        /\ workers[j].late
        /\ workers[j].key = workers[i].key

MaxHolders == { i \in 1..Len(fitnesses) :
                  \A j \in 1..Len(fitnesses) : fitnesses[j] <= fitnesses[i] }

FullTournament == pc = "selected" /\ Len(drawn) = Len(population)

\* C9 (as claimed): a tournament over the whole population returns the
\* individual at the lowest population index among those of maximum fitness.
C9_LowestIndexOfMax ==
    FullTournament =>
        chosen = population[CHOOSE i \in MaxHolders : \A j \in MaxHolders : i <= j]

\* C9 (amended): a tournament over the whole population returns an individual
\* of maximum fitness: among those of maximum fitness, the one drawn first.
C9_FirstDrawnOfMax ==
    FullTournament =>
        \E d \in 1..Len(drawn) :
            /\ drawn[d] \in MaxHolders
            /\ \A e \in 1..(d - 1) : drawn[e] \notin MaxHolders
            /\ chosen = population[drawn[d]]

\* C9 witness: two individuals tie for the maximum and the one at the higher
\* index was drawn first and returned.
C9_Witness ==
    /\ FullTournament
    /\ Cardinality(MaxHolders) >= 2
    /\ \E i \in MaxHolders : chosen = population[i] /\ \E j \in MaxHolders : j < i

\* C10 (as claimed): with invalid control parameters the run fails before the
\* first generation: no fitness call reaches the simulator, the cache stays
\* empty, no population is bred and the run does not complete.
C10_FailsFast ==
    ~ ValidConfiguration =>
        /\ \A i \in DOMAIN workers : ~ workers[i].simulated
        /\ fitness_cache = << >>
        /\ new_population = << >>
        /\ pc # "done"

\* C11 (as claimed): once an oracle call has not completed, in EVALUATE or in
\* the validation of a bred child, the run only waits for the fitness calls
\* still running and ends in the error: it breeds no further, regenerates
\* nothing in place of the child and returns no result.
C11_OracleFailureFatal ==
    failures > 0 =>
        /\ pc \in {"evaluating", "error"}
        /\ regenerated = 0
        /\ result = NoResult

\* the two arguments and the child of the last crossover call
ParentA == before[drawn[1]]
ParentB == before[drawn[2]]
Crossed == heap[chosen]

\* C12: the child of crossover has total_cells cells and, for one cut point p
\* with 1 <= p <= total_cells - 1, is the first p cells of the first parent
\* followed by the cells of the second parent from position p on.
C12_CrossoverRecombines ==
    pc = "crossed" =>
        /\ Len(Crossed) = NumCells
        /\ \E p \in 1..(NumCells - 1) :
              Crossed = SubSeq(ParentA, 1, p) \o SubSeq(ParentB, p + 1, NumCells)

\* C12 witness: the parents differ in every cell, so the child has cells of
\* both and is neither of them.
C12_Witness ==
    /\ pc = "crossed"
    /\ \A c \in Cells : ParentA[c] # ParentB[c]
    /\ Crossed[1] = ParentA[1]
    /\ Crossed[NumCells] = ParentB[NumCells]

\* C13 (as claimed): after mutate the array passed to it has the cells it had
\* before the call, and the array returned is another object.
C13_MutateLeavesInput ==
    pc = "mutated" =>
        /\ heap[drawn[1]] = before[drawn[1]]
        /\ chosen # drawn[1]

LastBred == heap[new_population[Len(new_population)]]

\* C14: with a sound library, the generate_array calls of a BREED are as
\* many as its children that validate_array found invalid; a child found
\* valid stands in the new population with its cells; and when the oracle
\* rejects every grid, a finished BREED has made POPULATION_SIZE - ELITE_SIZE
\* calls.
C14_RegenerationPerRejection ==
    fault = "none" =>
        /\ regenerated = rejected
        /\ (pc = "breed" /\ children >= 1 /\ is_array_valid(child)) =>
              LastBred = child
        /\ (pc = "breed" /\ children = POPULATION_SIZE - ELITE_SIZE
               /\ validGrids = {}) =>
              regenerated = POPULATION_SIZE - ELITE_SIZE

\* C14 witness: a BREED of two children beside an elite has finished under
\* the oracle that rejects every grid, with two generate_array calls.
C14_Witness ==
    /\ fault = "none"
    /\ pc = "breed"
    /\ validGrids = {}
    /\ ELITE_SIZE >= 1
    /\ children = POPULATION_SIZE - ELITE_SIZE
    /\ regenerated = 2
    /\ rejected = 2

MaxOf(f) == f[argmax(f)]

InitialFitness == fitness_computed(ZeroGrid, reactor_metrics(ZeroGrid))

\* C15: with ELITE_SIZE >= 1 and an oracle that accepts every grid, the
\* fitness the run returns is at least the fitness of the initial all-zero
\* grid, and the maximum of the fitness vector of an EVALUATE is at least the
\* maximum of the vector of the EVALUATE before.
C15_BestNeverDecreases ==
    /\ [](pc = "done" => result.fitness >= InitialFitness)
    /\ [][fitnesses # << >> => MaxOf(fitnesses') >= MaxOf(fitnesses)]_vars

\* C15 witness: the run has returned a fitness above the initial one, from a
\* last fitness vector that holds a lower score too.
C15_Witness ==
    /\ pc = "done"
    /\ generation = MaxGen + 1
    /\ result.fitness > InitialFitness
    /\ \E i \in 1..Len(fitnesses) : fitnesses[i] < result.fitness

Budget == [i \in 1..GENERATIONS |-> i - 1]

\* C16: with a valid configuration and a sound library the run reaches its
\* return with a grid and a score after exactly GENERATIONS EVALUATE phases,
\* one for each value 0..GENERATIONS-1 of the generation counter; no run
\* starts more EVALUATE phases than GENERATIONS, and none reaches TERMINATE
\* with fewer.
C16_RunsTheBudget ==
    /\ [](Len(phases) <= GENERATIONS)
    /\ [](pc \in {"terminate", "done"} => phases = Budget)
    /\ (pc = "start" /\ ValidConfiguration /\ fault = "none")
          ~> (pc = "done" /\ phases = Budget /\ result.branch # "none")

\* C16 witness: a run of MaxGen generations has returned.
C16_Witness ==
    /\ pc = "done"
    /\ GENERATIONS = MaxGen
    /\ phases = Budget
    /\ result.branch = "best"

\* C17: after an EVALUATE the fitness vector has one entry for each member of
\* the evaluated population, and entry i is the score of member i, in whatever
\* order the fitness calls returned.
C17_FitnessesAligned ==
    pc \in {"select", "breed"} =>
        /\ Len(fitnesses) = Len(evaluated)
        /\ \A i \in 1..Len(evaluated) :
              fitnesses[i] =
                  fitness_computed(evaluated[i], reactor_metrics(evaluated[i]))

\* C17 witness: the call on the first member returned last, and the members
\* have different scores.
C17_Witness ==
    /\ pc = "select"
    /\ Len(completion) = Len(population)
    /\ completion[Len(completion)] = 1
    /\ \E i \in 1..Len(fitnesses) : fitnesses[i] # fitnesses[1]

\* C18 (as claimed): a fitness call writes to the cache (lines 56, 71) only
\* under a key the cache does not hold, so no key is written twice.
C18_WrittenOnce ==
    [][\A i \in DOMAIN workers :
          (/\ workers[i].pc = "measured"
           /\ i \in DOMAIN workers'
           /\ workers'[i].pc = "done") =>
              workers[i].key \notin DOMAIN fitness_cache]_vars

\* C19: while a population is bred, each of its members has the cells it had
\* when it was evaluated.
C19_PopulationUntouched ==
    pc = "breed" => Contents(heap, population) = evaluated

\* C19 witness: in generation 0, where both parents are the one initial
\* array, a child was bred and kept whose cells the mutation changed.
C19_Witness ==
    /\ pc = "breed"
    /\ generation = 0
    /\ children >= 1
    /\ regenerated = 0
    /\ child # ZeroGrid
    /\ LastBred = child

\* C20: no fitness call is running outside of an EVALUATE; selection starts
\* with the results of all the calls of the EVALUATE collected; and an
\* EVALUATE runs with the BREED and ADAPT of the generation before finished.
C20_GenerationalBarrier ==
    /\ pc # "evaluating" => workers = Idle
    /\ pc = "select" =>
          /\ Len(completion) = Len(population)
          /\ Len(fitnesses) = Len(population)
    /\ pc = "evaluating" =>
          /\ new_population = << >>
          /\ Len(phases) = generation + 1

\* C20 witness: the selection of a later generation starts, every call of its
\* EVALUATE has returned.
C20_Witness ==
    /\ pc = "select"
    /\ generation >= 1
    /\ Len(population) >= 2
    /\ Len(completion) = Len(population)
    /\ completion[1] # 1

=============================================================================
